---- MODULE Spec2Model ----
(***************************************************************************)
(* Offline Morse decoder, AdvancedMorseDecoder of src/Untitled-1.py.       *)
(*                                                                         *)
(* decode() is modelled statement group by statement group with a program  *)
(* counter pc, from the binarised signal on.  Two specifications enter it: *)
(*   SpecSamples  at the envelope, on every short 0/1 sample sequence:     *)
(*                medfilt, the run-length loop sample by sample,           *)
(*                then calibration, state machine and translation;         *)
(*   Spec         at the calibration, on run lists whose durations have    *)
(*                the size of real Morse elements (the local `durations`   *)
(*                as the run-length loop leaves it for a long recording).  *)
(* In both, decode is called NumCalls times on the same decoder object.    *)
(*                                                                         *)
(* Time is counted in ticks of 25 microseconds, so that                    *)
(* every constant of the code (0.06 s, 0.045 s, mean * 0.8, count / 8000,  *)
(* peak * 0.85 ...) is an integer: 0.06 s = 2400 ticks, one sample period  *)
(* at 8000 Hz = 5 ticks.                                                   *)
(* A Python string is a sequence of one-character strings: ".-" is         *)
(* <<".", "-">>, the word marker ' ' is <<" ">>.                           *)
(***************************************************************************)
EXTENDS Integers, Sequences, FiniteSets, TLC

(***************************************************************************)
(* Bounds of the model.                                                    *)
(***************************************************************************)
\* longest run list drawn from ToneDurs / GapDurs
MaxRuns == 3
\* longest message (in code tokens) keyed at the default means
MaxChars == 3
\* the density grid has GridSteps + 1 evenly spaced points
GridSteps == 2
\* decode calls made on the one decoder object
NumCalls == 2
\* longest binary sample sequence of SpecSamples
MaxLen == 9

(***************************************************************************)
(* Program constants.                                                      *)
(***************************************************************************)
sample_rate == 8000
kernel_size == 5

\* count / self.sample_rate in ticks, 40000 of which make a second
SamplePeriod == 40000 \div sample_rate

\* MORSE_CODE_DICT as its set of (key, value) items
MorsePairs ==
    { <<<<".", "-">>, "A">>,
      <<<<"-", ".", ".", ".">>, "B">>,
      <<<<"-", ".", "-", ".">>, "C">>,
      <<<<"-", ".", ".">>, "D">>,
      <<<<".">>, "E">>,
      <<<<".", ".", "-", ".">>, "F">>,
      <<<<"-", "-", ".">>, "G">>,
      <<<<".", ".", ".", ".">>, "H">>,
      <<<<".", ".">>, "I">>,
      <<<<".", "-", "-", "-">>, "J">>,
      <<<<"-", ".", "-">>, "K">>,
      <<<<".", "-", ".", ".">>, "L">>,
      <<<<"-", "-">>, "M">>,
      <<<<"-", ".">>, "N">>,
      <<<<"-", "-", "-">>, "O">>,
      <<<<".", "-", "-", ".">>, "P">>,
      <<<<"-", "-", ".", "-">>, "Q">>,
      <<<<".", "-", ".">>, "R">>,
      <<<<".", ".", ".">>, "S">>,
      <<<<"-">>, "T">>,
      <<<<".", ".", "-">>, "U">>,
      <<<<".", ".", ".", "-">>, "V">>,
      <<<<".", "-", "-">>, "W">>,
      <<<<"-", ".", ".", "-">>, "X">>,
      <<<<"-", ".", "-", "-">>, "Y">>,
      <<<<"-", "-", ".", ".">>, "Z">>,
      <<<<".", "-", "-", "-", "-">>, "1">>,
      <<<<".", ".", "-", "-", "-">>, "2">>,
      <<<<".", ".", ".", "-", "-">>, "3">>,
      <<<<".", ".", ".", ".", "-">>, "4">>,
      <<<<".", ".", ".", ".", ".">>, "5">>,
      <<<<"-", ".", ".", ".", ".">>, "6">>,
      <<<<"-", "-", ".", ".", ".">>, "7">>,
      <<<<"-", "-", "-", ".", ".">>, "8">>,
      <<<<"-", "-", "-", "-", ".">>, "9">>,
      <<<<"-", "-", "-", "-", "-">>, "0">>,
      <<<<"/">>, " ">>,
      <<<<"-", "-", ".", ".", "-", "-">>, ",">>,
      <<<<".", "-", ".", "-", ".", "-">>, ".">>,
      <<<<".", ".", "-", "-", ".", ".">>, "?">>,
      <<<<".", "-", "-", "-", "-", ".">>, "'">>,
      <<<<"-", ".", "-", ".", "-", "-">>, "!">>,
      <<<<"-", ".", ".", "-", ".">>, "/">>,
      <<<<"-", ".", "-", "-", ".">>, "(">>,
      <<<<"-", ".", "-", "-", ".", "-">>, ")">>,
      <<<<".", "-", ".", ".", ".">>, "&">>,
      <<<<"-", "-", "-", ".", ".", ".">>, ":">>,
      <<<<"-", ".", "-", ".", "-", ".">>, ";">>,
      <<<<"-", ".", ".", ".", "-">>, "=">>,
      <<<<".", "-", ".", "-", ".">>, "+">>,
      <<<<"-", ".", ".", ".", ".", "-">>, "-">>,
      <<<<".", ".", "-", "-", ".", "-">>, "_">>,
      <<<<".", "-", ".", ".", "-", ".">>, "\"">>,
      <<<<".", ".", ".", "-", ".", ".", "-">>, "$">>,
      <<<<".", "-", "-", ".", "-", ".">>, "@">> }

MorseKeys == { p[1] : p \in MorsePairs }

\* the table with the code of "/" read as a second code of "X"
MORSE_CODE_DICT_aliased ==
    [code \in MorseKeys |->
        IF code = <<"-", ".", ".", "-", ".">> THEN "X"
        ELSE (CHOOSE p \in MorsePairs : p[1] = code)[2]]

MORSE_CODE_DICT == [code \in MorseKeys |-> (CHOOSE p \in MorsePairs : p[1] = code)[2]]

\* self.timing_stats as __init__ builds it
DefaultTimingStats ==
    [ dit      |-> [mean |-> 2400,  std |-> 800, min |-> 1800, max |-> 3000],
      dah      |-> [mean |-> 7200,  std |-> 800, min |-> 6600, max |-> 7800],
      elem_gap |-> [mean |-> 2400,  std |-> 400],
      char_gap |-> [mean |-> 7200,  std |-> 800],
      word_gap |-> [mean |-> 16800, std |-> 2000] ]

Abs(x) == IF x < 0 THEN -x ELSE x

(***************************************************************************)
(* _dynamic_threshold                                                      *)
(***************************************************************************)
\* mutant: the minimum filter keeps a duration equal to the minimum
ValidDurationsInclusive(ts, durs, cat) ==
    LET Keep(d) == d >= ts[cat].min IN SelectSeq(durs, Keep)

\* valid_durations = [d for d in durations if d > timing_stats[category]['min']]
ValidDurations(ts, durs, cat) ==
    LET Keep(d) == d > ts[cat].min IN SelectSeq(durs, Keep)

AllEqual(s) == \A a, b \in 1..Len(s) : s[a] = s[b]

\* gaussian_kde(valid_durations) followed by kde(x): the outcomes scipy can
\* produce on a non-empty one-dimensional dataset.
\*   "raise"  the constructor raises: one element (ValueError), or a data
\*            covariance that is exactly zero (LinAlgError);
\*   "flat"   all elements are equal but the floating-point mean of three or
\*            more of them is one ulp off, the covariance is about 1e-33 and
\*            the density underflows to 0.0 on the whole grid;
\*   "ok"     the elements differ and the density has a peak on the grid.
\* The sum of two equal floats and its half are exact, so two equal elements
\* always give a zero covariance.
gaussian_kde(valid) ==
    IF Len(valid) = 1 THEN {"raise"}
    ELSE IF AllEqual(valid)
         THEN IF Len(valid) = 2 THEN {"raise"} ELSE {"raise", "flat"}
         ELSE {"ok"}

\* x = np.linspace(min, max, 100), thinned to GridSteps + 1 points
Grid(ts, cat) ==
    { ts[cat].min + (g * (ts[cat].max - ts[cat].min)) \div GridSteps : g \in 0..GridSteps }

\* peak = x[np.argmax(kde(x))]: argmax of an all-zero density is index 0;
\* otherwise the peak is some point of the grid (the density itself is not
\* computed here, every grid point is a possible peak).
Peaks(ts, cat, kde) ==
    IF kde = "flat" THEN {ts[cat].min} ELSE Grid(ts, cat)

\* peak * 0.85 for 'dit', peak * 1.05 for 'dah'
Adjusted(cat, peak) ==
    IF cat = "dit" THEN (peak * 85) \div 100
    ELSE IF cat = "dah" THEN (peak * 105) \div 100
    ELSE peak

\* The outcomes of one call: [raised |-> TRUE] or a returned value.
_dynamic_threshold(ts, durs, cat) ==
    LET valid == ValidDurations(ts, durs, cat) IN
    IF valid = <<>>
    THEN { [raised |-> FALSE, value |-> ts[cat].mean] }
    ELSE UNION { IF kde = "raise"
                 THEN { [raised |-> TRUE, value |-> -1] }
                 ELSE { [raised |-> FALSE, value |-> Adjusted(cat, peak)] :
                        peak \in Peaks(ts, cat, kde) }
               : kde \in gaussian_kde(valid) }

(***************************************************************************)
(* _classify_symbol, _classify_gap                                         *)
(***************************************************************************)
\* mutant: a tie of the two z-scores is a dash
_classify_symbol_tie_dash(ts, duration) ==
    IF Abs(duration - ts.dah.mean) * ts.dit.std <= Abs(duration - ts.dit.mean) * ts.dah.std
    THEN "-" ELSE "."

\* z_dah < z_dit with z = |duration - mean| / std, cross-multiplied by the
\* two (positive) standard deviations
_classify_symbol(ts, duration) ==
    IF Abs(duration - ts.dah.mean) * ts.dit.std < Abs(duration - ts.dit.mean) * ts.dah.std
    THEN "-" ELSE "."

\* mutant: the bounds are exclusive
_classify_gap_strict(ts, duration) ==
    IF duration * 10 > ts.word_gap.mean * 8 THEN "word"
    ELSE IF duration * 10 > ts.char_gap.mean * 7 THEN "char"
    ELSE IF duration * 10 > ts.elem_gap.mean * 12 THEN "elem"
    ELSE "None"

\* duration >= mean * 0.8 / 0.7 / 1.2, multiplied through by 10
_classify_gap(ts, duration) ==
    IF duration * 10 >= ts.word_gap.mean * 8 THEN "word"
    ELSE IF duration * 10 >= ts.char_gap.mean * 7 THEN "char"
    ELSE IF duration * 10 >= ts.elem_gap.mean * 12 THEN "elem"
    ELSE "None"

(***************************************************************************)
(* Translation (the loop over output and the final join/replace/strip)     *)
(***************************************************************************)
\* text.append(MORSE_CODE_DICT[code]) if code in MORSE_CODE_DICT else '?'
TranslateCode(code) ==
    IF code \in DOMAIN MORSE_CODE_DICT THEN MORSE_CODE_DICT[code] ELSE "?"

TranslateAll(out) == [j \in 1..Len(out) |-> TranslateCode(out[j])]

\* str.replace('  ', ' '): non-overlapping occurrences, left to right
RECURSIVE ReplaceDoubleSpace(_)
ReplaceDoubleSpace(s) ==
    IF Len(s) < 2 THEN s
    ELSE IF s[1] = " " /\ s[2] = " "
         THEN <<" ">> \o ReplaceDoubleSpace(SubSeq(s, 3, Len(s)))
         ELSE <<s[1]>> \o ReplaceDoubleSpace(Tail(s))

\* str.strip()
RECURSIVE LStrip(_)
LStrip(s) == IF s # <<>> /\ s[1] = " " THEN LStrip(Tail(s)) ELSE s

RECURSIVE RStrip(_)
RStrip(s) ==
    IF s # <<>> /\ s[Len(s)] = " " THEN RStrip(SubSeq(s, 1, Len(s) - 1)) ELSE s

Strip(s) == LStrip(RStrip(s))

\* mutant: a code without a table entry is skipped
TranslateSkipUnknown(out) ==
    LET Known(code) == code \in DOMAIN MORSE_CODE_DICT IN
    Strip(ReplaceDoubleSpace(TranslateAll(SelectSeq(out, Known))))

\* ''.join(text).replace('  ', ' ').strip()
Translate(out) == Strip(ReplaceDoubleSpace(TranslateAll(out)))

(***************************************************************************)
(* medfilt(binary, kernel_size=5): median of the window centred on each    *)
(* sample, the signal zero-padded beyond both ends.  On 0/1 samples the    *)
(* median is 1 exactly when more than half of the window is 1.             *)
(***************************************************************************)
Padded(x, j) == IF j >= 1 /\ j <= Len(x) THEN x[j] ELSE 0

RECURSIVE WindowOnes(_, _, _)
WindowOnes(x, lo, hi) ==
    IF lo > hi THEN 0 ELSE Padded(x, lo) + WindowOnes(x, lo + 1, hi)

\* mutant: the signal is padded with its edge samples instead of zeros
medfilt_nearest(x) ==
    LET half == kernel_size \div 2
        Near(j) == x[IF j < 1 THEN 1 ELSE IF j > Len(x) THEN Len(x) ELSE j]
        Ones(j) == Cardinality({ d \in (0 - half)..half : Near(j + d) = 1 })
    IN  [j \in 1..Len(x) |-> IF 2 * Ones(j) > kernel_size THEN 1 ELSE 0]

medfilt(x) ==
    LET half == kernel_size \div 2 IN
    [j \in 1..Len(x) |-> IF 2 * WindowOnes(x, j - half, j + half) > kernel_size THEN 1 ELSE 0]

\* active_durations = [d for s, d in durations if s == 1]
ActiveDurations(durs) ==
    LET IsTone(r) == r[1] = 1
        tones == SelectSeq(durs, IsTone)
    IN  [j \in 1..Len(tones) |-> tones[j][2]]

(***************************************************************************)
(* The run lists decode is entered with.  Every list alternates tone and   *)
(* gap runs, as the run-length loop leaves it, and every duration is a     *)
(* whole number of sample periods.                                         *)
(***************************************************************************)
\* tone durations: below and at dit.min, the dit mean and one sample more,
\* the z-score tie and one sample more, dah.min, the dah mean and one more
ToneDurs == {1200, 1800, 2400, 2405, 4800, 4805, 6600, 7200, 7205}

\* gap durations: each bound of _classify_gap and one sample period less
GapDurs == {2875, 2880, 5035, 5040, 13435, 13440}

Alternates(runs) == \A j \in 1..(Len(runs) - 1) : runs[j][1] # runs[j + 1][1]

GeneralRuns ==
    LET Run == ({1} \X ToneDurs) \cup ({0} \X GapDurs) IN
    { runs \in UNION { [1..m -> Run] : m \in 1..MaxRuns } : Alternates(runs) }

\* A message keyed at the default means: code tokens, each with the kind of
\* gap ("char" or "word") that precedes it.
ToneAtMean(sym) ==
    IF sym = "." THEN DefaultTimingStats.dit.mean ELSE DefaultTimingStats.dah.mean

RECURSIVE CodeRuns(_)
CodeRuns(code) ==
    IF Len(code) = 1 THEN << <<1, ToneAtMean(code[1])>> >>
    ELSE << <<1, ToneAtMean(code[1])>>, <<0, DefaultTimingStats.elem_gap.mean>> >>
         \o CodeRuns(Tail(code))

GapAtMean(sep) ==
    IF sep = "word" THEN DefaultTimingStats.word_gap.mean
    ELSE DefaultTimingStats.char_gap.mean

RECURSIVE MessageRuns(_)
MessageRuns(msg) ==
    IF Len(msg) = 1 THEN CodeRuns(msg[1].code)
    ELSE MessageRuns(SubSeq(msg, 1, Len(msg) - 1))
         \o << <<0, GapAtMean(msg[Len(msg)].sep)>> >>
         \o CodeRuns(msg[Len(msg)].code)

\* E, O and a code with no table entry
MsgCodes == { <<".">>, <<"-", "-", "-">>, <<"-", "-", "-", ".">> }

Messages ==
    LET Item == [code : MsgCodes, sep : {"char", "word"}] IN
    { msg \in UNION { [1..m -> Item] : m \in 1..MaxChars } : msg[1].sep = "char" }

Word(codes) == [j \in 1..Len(codes) |-> [code |-> codes[j], sep |-> "char"]]

\* SOS, and an unknown code between two known ones
ExampleMessages ==
    { Word(<< <<".", ".", ".">>, <<"-", "-", "-">>, <<".", ".", ".">> >>),
      Word(<< <<".">>, <<"-", "-", "-", ".">>, <<"-", "-", "-">> >>) }

Inputs ==
    GeneralRuns \cup { MessageRuns(msg) : msg \in Messages \cup ExampleMessages }

VARIABLES
    timing_stats,     \* self.timing_stats
    binary_in,        \* binary after np.where
    binary,           \* binary after medfilt
    current_state,    \* run-length loop
    count,
    k,                \* samples of binary consumed by the run-length loop
    durations,        \* the list of (state, duration) runs
    pc,               \* position in decode
    entry,            \* the position at which the specification enters decode
    category,         \* argument of the latest _dynamic_threshold call
    valid_durations,  \* its local list
    dit_threshold,
    dah_threshold,
    i,                \* index of the run the state machine is at
    output,
    current_char,
    accumulated_gap,
    gap_type,
    symbol,
    text,             \* the value decode returns
    results           \* what the caller got from the decode calls so far

vars == <<timing_stats, binary_in, binary, current_state, count, k, durations, pc, entry,
          category, valid_durations, dit_threshold, dah_threshold, i, output,
          current_char, accumulated_gap, gap_type, symbol, text, results>>

segVars == <<binary, current_state, count, k>>

calVars == <<category, valid_durations, dit_threshold, dah_threshold>>

asmVars == <<i, output, current_char, accumulated_gap, gap_type, symbol>>

\* the locals of decode before its first statement has run
FreshLocals ==
    /\ category = "" /\ valid_durations = <<>>
    /\ dit_threshold = -1 /\ dah_threshold = -1
    /\ i = 1 /\ output = <<>> /\ current_char = <<>> /\ accumulated_gap = 0
    /\ gap_type = "None" /\ symbol = "" /\ text = <<>>

\* the same locals, reset when decode is entered again
ResetLocals ==
    /\ category' = "" /\ valid_durations' = <<>>
    /\ dit_threshold' = -1 /\ dah_threshold' = -1
    /\ i' = 1 /\ output' = <<>> /\ current_char' = <<>> /\ accumulated_gap' = 0
    /\ gap_type' = "None" /\ symbol' = "" /\ text' = <<>>

\* decode entered, on a decoder just constructed, at the calibration of a
\* recording whose run list is one of Inputs
Init ==
    /\ timing_stats = DefaultTimingStats
    /\ binary_in = <<>> /\ binary = <<>> /\ current_state = 0 /\ count = 0 /\ k = 0
    /\ durations \in Inputs
    /\ entry = "cal_dit" /\ pc = entry
    /\ FreshLocals
    /\ results = <<>>

\* decode entered at the envelope, on a short sample sequence
BinarySeqs == UNION { [1..m -> {0, 1}] : m \in 1..MaxLen }

\* binary_in holds, for every sample of the recording, whether its RMS is
\* above the threshold; a recording without samples has none
InitSamples ==
    /\ timing_stats = DefaultTimingStats
    /\ binary_in \in BinarySeqs \cup {<<>>}
    /\ binary = <<>> /\ current_state = 0 /\ count = 0 /\ k = 0
    /\ durations = <<>>
    /\ entry = "envelope" /\ pc = entry
    /\ FreshLocals
    /\ results = <<>>

(***************************************************************************)
(* rms = np.sqrt(np.convolve(samples**2, np.ones(window_size)/window_size, *)
(* mode='same')); threshold; binary = np.where(rms > threshold, 1, 0).     *)
(* The amplitudes are not modelled, only the outcome of the comparison.    *)
(* np.convolve raises ValueError ("a cannot be empty") on an empty array,  *)
(* so a recording without samples leaves decode here.                      *)
(***************************************************************************)
Envelope ==
    /\ pc = "envelope"
    /\ pc' = IF binary_in = <<>> THEN "raised" ELSE "medfilt"
    /\ UNCHANGED <<timing_stats, binary_in, entry, durations, text, results>>
    /\ UNCHANGED segVars /\ UNCHANGED calVars /\ UNCHANGED asmVars

(***************************************************************************)
(* binary = medfilt(binary, kernel_size=5)                                 *)
(***************************************************************************)
Medfilt ==
    /\ pc = "medfilt"
    /\ binary' = medfilt(binary_in)
    /\ pc' = "seg_init"
    /\ UNCHANGED <<timing_stats, binary_in, entry, current_state, count, k, durations,
                   text, results>>
    /\ UNCHANGED calVars /\ UNCHANGED asmVars

(***************************************************************************)
(* durations = []; current_state = binary[0]; count = 1                    *)
(***************************************************************************)
SegInit ==
    /\ pc = "seg_init"
    /\ durations' = <<>>
    /\ current_state' = binary[1]
    /\ count' = 1
    /\ k' = 1
    /\ pc' = "seg_loop"
    /\ UNCHANGED <<timing_stats, binary_in, entry, binary, text, results>>
    /\ UNCHANGED calVars /\ UNCHANGED asmVars

(***************************************************************************)
(* for val in binary[1:]: one iteration; k samples are consumed so far     *)
(***************************************************************************)
SegStep ==
    /\ pc = "seg_loop" /\ k < Len(binary)
    /\ IF binary[k + 1] = current_state
       THEN /\ count' = count + 1
            /\ UNCHANGED <<durations, current_state>>
       ELSE /\ durations' = Append(durations, <<current_state, count * SamplePeriod>>)
            /\ current_state' = binary[k + 1]
            /\ count' = 1
    /\ k' = k + 1
    /\ UNCHANGED <<timing_stats, binary_in, entry, binary, pc, text, results>>
    /\ UNCHANGED calVars /\ UNCHANGED asmVars

\* mutant: the run still open at the end of the input is not appended
SegFinalDropsLastRun ==
    /\ pc = "seg_loop" /\ k = Len(binary)
    /\ pc' = "cal_dit"
    /\ UNCHANGED <<timing_stats, binary_in, entry, binary, current_state, count, k,
                   durations, text, results>>
    /\ UNCHANGED calVars /\ UNCHANGED asmVars

(***************************************************************************)
(* durations.append((current_state, count/self.sample_rate)) after the loop *)
(***************************************************************************)
SegFinal ==
    /\ pc = "seg_loop" /\ k = Len(binary)
    /\ durations' = Append(durations, <<current_state, count * SamplePeriod>>)
    /\ pc' = "cal_dit"
    /\ UNCHANGED <<timing_stats, binary_in, entry, binary, current_state, count, k,
                   text, results>>
    /\ UNCHANGED calVars /\ UNCHANGED asmVars

(***************************************************************************)
(* dit_threshold = self._dynamic_threshold(active_durations, 'dit')        *)
(***************************************************************************)
CalibrateDit ==
    /\ pc = "cal_dit"
    /\ \E o \in _dynamic_threshold(timing_stats, ActiveDurations(durations), "dit") :
          /\ dit_threshold' = o.value
          /\ pc' = IF o.raised THEN "raised" ELSE "cal_dah"
    /\ category' = "dit"
    /\ valid_durations' = ValidDurations(timing_stats, ActiveDurations(durations), "dit")
    /\ UNCHANGED <<timing_stats, binary_in, entry, durations, dah_threshold, text, results>>
    /\ UNCHANGED segVars /\ UNCHANGED asmVars

\* mutant: the two estimates are stored into self.timing_stats
CalibrateDahStoring ==
    /\ pc = "cal_dah"
    /\ \E o \in _dynamic_threshold(timing_stats, ActiveDurations(durations), "dah") :
          /\ dah_threshold' = o.value
          /\ pc' = IF o.raised THEN "raised" ELSE "loop"
          /\ timing_stats' = IF o.raised THEN timing_stats
                             ELSE [timing_stats EXCEPT !.dit.mean = dit_threshold,
                                                       !.dah.mean = o.value]
    /\ category' = "dah"
    /\ valid_durations' = ValidDurations(timing_stats, ActiveDurations(durations), "dah")
    /\ UNCHANGED <<binary_in, entry, durations, dit_threshold, text, results>>
    /\ UNCHANGED segVars /\ UNCHANGED asmVars

(***************************************************************************)
(* dah_threshold = self._dynamic_threshold(active_durations, 'dah');       *)
(* output = []; current_char = []; accumulated_gap = 0.0                   *)
(***************************************************************************)
CalibrateDah ==
    /\ pc = "cal_dah"
    /\ \E o \in _dynamic_threshold(timing_stats, ActiveDurations(durations), "dah") :
          /\ dah_threshold' = o.value
          /\ pc' = IF o.raised THEN "raised" ELSE "loop"
    /\ category' = "dah"
    /\ valid_durations' = ValidDurations(timing_stats, ActiveDurations(durations), "dah")
    /\ UNCHANGED <<timing_stats, binary_in, entry, durations, dit_threshold, text, results>>
    /\ UNCHANGED segVars /\ UNCHANGED asmVars

(***************************************************************************)
(* for state, duration in durations: the body in its statement groups      *)
(***************************************************************************)
AtRun == pc = "loop" /\ i <= Len(durations)

\* state == 1 and accumulated_gap > 0: gap_type = self._classify_gap(accumulated_gap)
ClassifyGap ==
    /\ AtRun /\ durations[i][1] = 1 /\ accumulated_gap > 0
    /\ gap_type' = _classify_gap(timing_stats, accumulated_gap)
    /\ pc' = "gap"
    /\ UNCHANGED <<timing_stats, binary_in, entry, durations, i, output, current_char, accumulated_gap,
                   symbol, text, results>>
    /\ UNCHANGED segVars /\ UNCHANGED calVars

\* the gap handling with the word marker emitted ahead of the pending character
HandleGapMarkerFirst ==
    /\ pc = "gap"
    /\ output' =
         IF gap_type = "word"
         THEN Append(output, <<" ">>)
              \o (IF current_char # <<>> THEN <<current_char>> ELSE <<>>)
         ELSE IF gap_type = "char" /\ current_char # <<>>
              THEN Append(output, current_char)
              ELSE output
    /\ current_char' = IF gap_type \in {"word", "char"} THEN <<>> ELSE current_char
    /\ accumulated_gap' = 0
    /\ pc' = "symbol"
    /\ UNCHANGED <<timing_stats, binary_in, entry, durations, i, gap_type, symbol, text, results>>
    /\ UNCHANGED segVars /\ UNCHANGED calVars

\* the if/elif on gap_type, then accumulated_gap = 0
HandleGap ==
    /\ pc = "gap"
    /\ output' =
         IF gap_type = "word"
         THEN (IF current_char # <<>> THEN Append(output, current_char) ELSE output)
              \o << <<" ">> >>
         ELSE IF gap_type = "char" /\ current_char # <<>>
              THEN Append(output, current_char)
              ELSE output
    /\ current_char' = IF gap_type \in {"word", "char"} THEN <<>> ELSE current_char
    /\ accumulated_gap' = 0
    /\ pc' = "symbol"
    /\ UNCHANGED <<timing_stats, binary_in, entry, durations, i, gap_type, symbol, text, results>>
    /\ UNCHANGED segVars /\ UNCHANGED calVars

\* symbol = self._classify_symbol(duration); current_char.append(symbol)
ClassifySymbol ==
    /\ \/ pc = "symbol"
       \/ AtRun /\ durations[i][1] = 1 /\ accumulated_gap <= 0
    /\ symbol' = _classify_symbol(timing_stats, durations[i][2])
    /\ current_char' = Append(current_char, symbol')
    /\ i' = i + 1
    /\ pc' = "loop"
    /\ UNCHANGED <<timing_stats, binary_in, entry, durations, output, accumulated_gap, gap_type, text, results>>
    /\ UNCHANGED segVars /\ UNCHANGED calVars

\* else: accumulated_gap += duration
GapRun ==
    /\ AtRun /\ durations[i][1] # 1
    /\ accumulated_gap' = accumulated_gap + durations[i][2]
    /\ i' = i + 1
    /\ UNCHANGED <<timing_stats, binary_in, entry, durations, pc, output, current_char, gap_type, symbol,
                   text, results>>
    /\ UNCHANGED segVars /\ UNCHANGED calVars

\* the end of the loop with the trailing silence handled like a gap ahead
\* of a tone: a word-class trailing gap emits a marker
FlushTrailingGap ==
    /\ pc = "loop" /\ i > Len(durations)
    /\ output' =
         (IF current_char # <<>> THEN Append(output, current_char) ELSE output)
         \o (IF accumulated_gap > 0 /\ _classify_gap(timing_stats, accumulated_gap) = "word"
             THEN << <<" ">> >> ELSE <<>>)
    /\ pc' = "translate"
    /\ UNCHANGED <<timing_stats, binary_in, entry, durations, i, current_char, accumulated_gap, gap_type,
                   symbol, text, results>>
    /\ UNCHANGED segVars /\ UNCHANGED calVars

\* the end of the loop without the final append
FlushDropsPending ==
    /\ pc = "loop" /\ i > Len(durations)
    /\ pc' = "translate"
    /\ UNCHANGED <<timing_stats, binary_in, entry, durations, i, output, current_char, accumulated_gap,
                   gap_type, symbol, text, results>>
    /\ UNCHANGED segVars /\ UNCHANGED calVars

\* after the loop: if current_char: output.append(''.join(current_char))
Flush ==
    /\ pc = "loop" /\ i > Len(durations)
    /\ output' = IF current_char # <<>> THEN Append(output, current_char) ELSE output
    /\ pc' = "translate"
    /\ UNCHANGED <<timing_stats, binary_in, entry, durations, i, current_char, accumulated_gap, gap_type,
                   symbol, text, results>>
    /\ UNCHANGED segVars /\ UNCHANGED calVars

\* the translation loop and the return expression
TranslateOutput ==
    /\ pc = "translate"
    /\ text' = Translate(output)
    /\ pc' = "done"
    /\ UNCHANGED <<timing_stats, binary_in, entry, durations, results>>
    /\ UNCHANGED segVars /\ UNCHANGED calVars /\ UNCHANGED asmVars

\* decode returns; the caller keeps the result and, NumCalls permitting,
\* calls decode again on the same object and the same recording
Return ==
    /\ pc = "done"
    /\ results' = Append(results, [output |-> output, text |-> text])
    /\ IF Len(results') < NumCalls
       THEN /\ pc' = entry
            /\ ResetLocals
       ELSE /\ pc' = "idle"
            /\ UNCHANGED calVars /\ UNCHANGED asmVars /\ UNCHANGED text
    /\ UNCHANGED <<timing_stats, binary_in, entry, durations>>
    /\ UNCHANGED segVars

Next ==
    \/ CalibrateDit
    \/ CalibrateDah
    \/ ClassifyGap
    \/ HandleGap
    \/ ClassifySymbol
    \/ GapRun
    \/ Flush
    \/ TranslateOutput
    \/ Return

Spec == Init /\ [][Next]_vars

NextSamples ==
    \/ Envelope
    \/ Medfilt
    \/ SegInit
    \/ SegStep
    \/ SegFinal
    \/ Next

SpecSamples == InitSamples /\ [][NextSamples]_vars

(***************************************************************************)
(* A recording and the same recording with silence ahead of it: decode is  *)
(* called on a run list that starts with a tone, and then on that list     *)
(* with one leading gap run of any class put in front.                     *)
(***************************************************************************)
LeadingGaps == GapDurs

ToneFirstInputs == { runs \in Inputs : runs[1][1] = 1 }

InitLeading ==
    /\ timing_stats = DefaultTimingStats
    /\ binary_in = <<>> /\ binary = <<>> /\ current_state = 0 /\ count = 0 /\ k = 0
    /\ durations \in ToneFirstInputs
    /\ entry = "cal_dit" /\ pc = entry
    /\ FreshLocals
    /\ results = <<>>

\* return text; the caller's next call is on the recording with the
\* leading silence
ReturnThenLeadingGap ==
    /\ pc = "done"
    /\ results' = Append(results, [output |-> output, text |-> text])
    /\ IF Len(results') < NumCalls
       THEN /\ pc' = entry
            /\ ResetLocals
            /\ IF results = <<>>
               THEN \E g \in LeadingGaps : durations' = << <<0, g>> >> \o durations
               ELSE durations' = durations
       ELSE /\ pc' = "idle"
            /\ UNCHANGED calVars /\ UNCHANGED asmVars /\ UNCHANGED <<text, durations>>
    /\ UNCHANGED <<timing_stats, binary_in, entry>>
    /\ UNCHANGED segVars

NextLeading ==
    \/ CalibrateDit
    \/ CalibrateDah
    \/ ClassifyGap
    \/ HandleGap
    \/ ClassifySymbol
    \/ GapRun
    \/ Flush
    \/ TranslateOutput
    \/ ReturnThenLeadingGap

SpecLeading == InitLeading /\ [][NextLeading]_vars

(***************************************************************************)
(* Properties                                                              *)
(***************************************************************************)
\* the message, if any, whose keying at the default means is `durations`
KeyedFrom(msg) == durations = MessageRuns(msg)

\* a single-word text: every code has a table entry, every separator is a
\* character gap
SingleWord(msg) ==
    \A j \in 1..Len(msg) : msg[j].code \in MorseKeys /\ msg[j].sep = "char"

TextOf(msg) == [j \in 1..Len(msg) |-> MORSE_CODE_DICT[msg[j].code]]

\* C1: decode turns the run list keyed from any single-word text at the
\* default means back into exactly that text: it does not raise, and the
\* text it returns is the source text (so it holds no '?').
C1_DefaultMeansRoundTrip ==
    \A msg \in Messages \cup ExampleMessages :
        (SingleWord(msg) /\ KeyedFrom(msg) /\ results = <<>>)
            => /\ pc # "raised"
               /\ pc = "done" => text = TextOf(msg)

\* a run list of one tone, one word-class gap (0.336 s = 13440 ticks or
\* more), one tone
TwoTonesAcrossWordGap ==
    /\ Len(durations) = 3
    /\ durations[1][1] = 1 /\ durations[2][1] = 0 /\ durations[3][1] = 1
    /\ durations[2][2] >= 13440

\* C2: two resolvable characters separated by a word-class gap are returned
\* as "X Y": the marker between them is rendered as one literal space.
C2_WordGapRendersSpace ==
    (pc = "done" /\ TwoTonesAcrossWordGap)
        => /\ Len(output) = 3
           /\ output[1] \in MorseKeys /\ output[3] \in MorseKeys
           /\ text = <<MORSE_CODE_DICT[output[1]], " ", MORSE_CODE_DICT[output[3]]>>

RECURSIVE SumDurations(_)
SumDurations(runs) ==
    IF runs = <<>> THEN 0 ELSE runs[1][2] + SumDurations(Tail(runs))

Segmented == binary_in # <<>> /\ pc \notin {"envelope", "medfilt", "seg_init", "seg_loop"}

\* C3: the runs of the run-length loop cover the whole input: consecutive
\* runs differ in state, every run is strictly positive, and the durations
\* add up to the input length times the sample period - while the loop runs
\* (counting the open run) and after the final append.
C3_RunsCoverInput ==
    /\ pc = "seg_loop" =>
          /\ Alternates(durations)
          /\ \A j \in 1..Len(durations) : durations[j][2] > 0
          /\ count > 0
          /\ durations # <<>> => durations[Len(durations)][1] # current_state
          /\ SumDurations(durations) + count * 5 = k * 5
    /\ Segmented =>
          /\ durations # <<>>
          /\ Alternates(durations)
          /\ \A j \in 1..Len(durations) : durations[j][2] > 0
          /\ SumDurations(durations) = Len(binary_in) * 5

C3_Witness ==
    /\ pc = "cal_dit" /\ results = <<>>
    /\ Len(durations) >= 3
    /\ durations[Len(durations)][2] >= 10

\* C4: a token without a table entry becomes exactly one '?' at its own
\* position, and every other token becomes its table character at its own
\* position: nothing is dropped, shifted or truncated.
C4_UnknownCodeIsQuestionMark ==
    pc = "done" =>
        /\ Len(text) = Len(output)
        /\ \A j \in 1..Len(output) :
              /\ output[j] \notin MorseKeys => text[j] = "?"
              /\ output[j] \in MorseKeys => text[j] = MORSE_CODE_DICT[output[j]]

C4_Witness ==
    /\ pc = "done"
    /\ \E j \in 2..(Len(output) - 1) :
          /\ output[j] = <<"-", "-", "-", ".">>
          /\ output[j - 1] = <<".">> /\ output[j + 1] = <<"-", "-", "-">>
          /\ text = <<"E", "?", "O">>

\* C5: the gap bounds are inclusive and the highest category wins:
\* 0.336 s (13440 ticks) and more is 'word', from 0.126 s (5040) up to one
\* sample less than 0.336 s is 'char', from 0.072 s (2880) up to one sample
\* less than 0.126 s is 'elem', anything shorter is none.
C5_GapBoundsInclusive ==
    pc = "gap" =>
        /\ accumulated_gap >= 13440 => gap_type = "word"
        /\ (accumulated_gap >= 5040 /\ accumulated_gap <= 13440 - 5) => gap_type = "char"
        /\ (accumulated_gap >= 2880 /\ accumulated_gap <= 5040 - 5) => gap_type = "elem"
        /\ accumulated_gap <= 2880 - 5 => gap_type = "None"

C5_Witness == pc = "gap" /\ accumulated_gap = 13440 - 5 /\ gap_type = "char"

\* C6: every decode call on the same decoder object and the same run list
\* returns the same token list and the same text, and leaves the timing
\* model as the constructor built it.
C6_DecodeTwiceSame ==
    /\ \A a, b \in 1..Len(results) : results[a] = results[b]
    /\ timing_stats = DefaultTimingStats

C6_Witness ==
    /\ Len(results) = 2
    /\ Len(results[2].output) >= 2
    /\ \E j \in 1..Len(durations) : durations[j] = <<1, 4800>>

\* the timing model with the two calibrated estimates in place of the means
CalibratedStats ==
    [timing_stats EXCEPT !.dit.mean = dit_threshold, !.dah.mean = dah_threshold]

\* C7: the symbol of every tone run is the one the calibrated dit/dah
\* estimates of this decode pass give.
C7_ClassifiesWithCalibration ==
    (pc = "loop" /\ i > 1 /\ durations[i - 1][1] = 1)
        => symbol = _classify_symbol(CalibratedStats, durations[i - 1][2])

\* C8: calibration never ends in an error, whatever the tone durations.
C8_CalibrationNeverRaises == pc # "raised"

TonesAbove(bound) ==
    Cardinality({ j \in 1..Len(durations) : durations[j][1] = 1 /\ durations[j][2] > bound })

\* C9: the filter keeps exactly the tone durations strictly above the hard
\* minimum (0.045 s = 1800 ticks for dit, 0.165 s = 6600 for dah), and when
\* none is kept the call returns the default mean (0.06 s = 2400,
\* 0.18 s = 7200) and does not raise.
C9_FallbackToDefaultMean ==
    /\ category = "dit" => Len(valid_durations) = TonesAbove(1800)
    /\ category = "dah" => Len(valid_durations) = TonesAbove(6600)
    /\ (category = "dit" /\ TonesAbove(1800) = 0) => (pc # "raised" /\ dit_threshold = 2400)
    /\ (category = "dah" /\ TonesAbove(6600) = 0) => (pc # "raised" /\ dah_threshold = 7200)

C9_Witness ==
    /\ category = "dit" /\ pc = "cal_dah"
    /\ \E j \in 1..Len(durations) : durations[j] = <<1, 1800>>
    /\ valid_durations = <<>>
    /\ dit_threshold = 2400

\* no sample strictly inside x differs from both of its neighbours
NoSpike(x) ==
    \A j \in 2..(Len(x) - 1) : ~(x[j] # x[j - 1] /\ x[j] # x[j + 1])

\* C10 as stated: the filtered sequence has the length of the input and no
\* 1-sample spike.
C10_OutputHasNoSpike ==
    pc \notin {"envelope", "medfilt"} => (Len(binary) = Len(binary_in) /\ NoSpike(binary))

\* sample j of x is an isolated flip: its two neighbours on each side (0
\* beyond either end) all carry the other value
IsolatedFlip(x, j) ==
    \A d \in {-2, -1, 1, 2} : Padded(x, j + d) # x[j]

\* C10 as amended: the filtered sequence has the length of the input, and
\* every isolated flip of the input is replaced by the value around it.
C10_IsolatedFlipsRemoved ==
    pc \notin {"envelope", "medfilt"} =>
        /\ Len(binary) = Len(binary_in)
        /\ \A j \in 1..Len(binary_in) :
              IsolatedFlip(binary_in, j) => binary[j] = 1 - binary_in[j]

C10_Witness ==
    /\ pc = "seg_init"
    /\ \E j \in 3..(Len(binary_in) - 2) :
          IsolatedFlip(binary_in, j) /\ binary_in[j] = 1 /\ binary[j] = 0

\* the recording has no samples, or is all silence, or is all tone
Degenerate(x) == \A a, b \in 1..Len(x) : x[a] = x[b]

\* C11: decode does not fail on an empty or degenerate recording: it is
\* treated as a single run and decode returns a text, the empty text when
\* there is no tone run.
C11_DegenerateInputReturns ==
    (Degenerate(binary_in) /\ results = <<>>)
        => /\ pc # "raised"
           /\ pc = "done" =>
                 /\ Len(durations) = 1
                 /\ durations[1][1] = 0 => text = <<>>

\* the characters of the table
MorseChars == { MORSE_CODE_DICT[code] : code \in DOMAIN MORSE_CODE_DICT }

\* no two codes of the table share a character, each character has one
\* code, and there are as many characters as codes
TableIsInjective ==
    /\ \A a, b \in DOMAIN MORSE_CODE_DICT :
          MORSE_CODE_DICT[a] = MORSE_CODE_DICT[b] => a = b
    /\ \A ch \in MorseChars :
          Cardinality({ code \in DOMAIN MORSE_CODE_DICT : MORSE_CODE_DICT[code] = ch }) = 1
    /\ Cardinality(MorseChars) = Cardinality(DOMAIN MORSE_CODE_DICT)

\* C12: the Morse table is a bijection between its codes and its
\* characters: no two distinct codes map to the same character, so every
\* supported character has exactly one code; in particular the character
\* decode looks up for an emitted token has that token as its only code.
C12_TableIsBijection ==
    /\ TableIsInjective
    /\ \A j \in 1..Len(output) :
          output[j] \in DOMAIN MORSE_CODE_DICT =>
            \A code \in DOMAIN MORSE_CODE_DICT :
              MORSE_CODE_DICT[code] = MORSE_CODE_DICT[output[j]] => code = output[j]

\* a call has looked a token up in the table, and the character it
\* returned has that token as its only code
C12_Witness ==
    /\ pc = "done"
    /\ \E j \in 1..Len(output) :
          /\ output[j] \in DOMAIN MORSE_CODE_DICT
          /\ Len(text) = Len(output)
          /\ text[j] = MORSE_CODE_DICT[output[j]]
          /\ \A code \in DOMAIN MORSE_CODE_DICT :
                MORSE_CODE_DICT[code] = text[j] => code = output[j]

\* the word-boundary marker among the tokens of output
IsMarker(token) == token = <<" ">>

\* the code tokens of out, markers left out, joined in order
RECURSIVE ConcatCodes(_)
ConcatCodes(out) ==
    IF out = <<>> THEN <<>>
    ELSE IF IsMarker(Head(out)) THEN ConcatCodes(Tail(out))
    ELSE Head(out) \o ConcatCodes(Tail(out))

\* the symbols of the tone runs among the first n runs, in order
RECURSIVE ToneSymbols(_, _, _)
ToneSymbols(ts, durs, n) ==
    IF n = 0 THEN <<>>
    ELSE IF durs[n][1] = 1
         THEN Append(ToneSymbols(ts, durs, n - 1), _classify_symbol(ts, durs[n][2]))
         ELSE ToneSymbols(ts, durs, n - 1)

\* C13: no classified symbol is dropped or duplicated. While the runs are
\* processed the emitted code tokens followed by the pending character are
\* the symbols of the tone runs seen so far; after the end-of-input flush
\* the emitted code tokens alone are the symbols of all tone runs, a
\* non-empty pending character is the last token, and no token is empty.
C13_NoSymbolDroppedOrDuplicated ==
    /\ pc \in {"loop", "gap", "symbol"} =>
          ConcatCodes(output) \o current_char = ToneSymbols(timing_stats, durations, i - 1)
    /\ pc \in {"translate", "done"} =>
          /\ ConcatCodes(output) = ToneSymbols(timing_stats, durations, Len(durations))
          /\ current_char # <<>> =>
                output # <<>> /\ output[Len(output)] = current_char
    /\ \A j \in 1..Len(output) : output[j] # <<>>

\* the flush has just emitted a pending character of two symbols after a
\* word boundary
C13_Witness ==
    /\ pc = "translate"
    /\ Len(current_char) >= 2
    /\ Len(output) >= 3
    /\ IsMarker(output[Len(output) - 1])
    /\ output[Len(output)] = current_char

\* output after a non-empty pending character is flushed to it
Flushed(out, pending) == IF pending # <<>> THEN Append(out, pending) ELSE out

\* the step that handles the gap accumulated ahead of a tone run
GapHandlingEffect ==
    (pc = "gap" /\ pc' = "symbol") =>
        /\ accumulated_gap > 0 /\ accumulated_gap' = 0
        /\ _classify_gap(timing_stats, accumulated_gap) \in {"elem", "None"} =>
              output' = output /\ current_char' = current_char
        /\ _classify_gap(timing_stats, accumulated_gap) = "char" =>
              output' = Flushed(output, current_char) /\ current_char' = <<>>
        /\ _classify_gap(timing_stats, accumulated_gap) = "word" =>
              /\ output' = Append(Flushed(output, current_char), <<" ">>)
              /\ current_char' = <<>>

\* the step that appends the tone's symbol
SymbolAppendEffect ==
    (pc \in {"symbol", "loop"} /\ current_char' # current_char /\ pc' = "loop" /\ i' = i + 1) =>
        /\ accumulated_gap = 0
        /\ output' = output
        /\ current_char' = Append(current_char, _classify_symbol(timing_stats, durations[i][2]))

\* C14: on a tone run preceded by accumulated gap time, an element or none
\* gap leaves output and the pending character unchanged, a char gap
\* flushes a non-empty pending character and emits no marker, a word gap
\* flushes a non-empty pending character first and then emits the marker;
\* the accumulated gap is zero before the tone's symbol is appended, and
\* the symbol joins the pending character that the gap handling left.
C14_GapHandlingFrame == [][GapHandlingEffect /\ SymbolAppendEffect]_vars

\* a word gap has just flushed the pending character and emitted the
\* marker behind it, and the tone's symbol is about to be appended
C14_Witness ==
    /\ pc = "symbol" /\ gap_type = "word"
    /\ accumulated_gap = 0 /\ current_char = <<>>
    /\ Len(output) >= 2
    /\ output[Len(output)] = <<" ">>
    /\ output[Len(output) - 1] \in DOMAIN MORSE_CODE_DICT

\* a tone run has just been classified: run i - 1 is a tone run
JustClassified == pc = "loop" /\ i > 1 /\ durations[i - 1][1] = 1

\* ten times the z-score of duration d against a category, std being 800
\* for both categories of the default model
Z10(d, cat) == (Abs(d - cat.mean) * 10) \div cat.std

\* C15: a tone run is a dash exactly when it is strictly nearer, in
\* z-score, to dah than to dit, a tie being a dot; with the default model
\* every duration above 0.12 s (4800 ticks) is a dash and every duration
\* at or below it is a dot.
C15_DashIffNearerDah ==
    JustClassified =>
        /\ symbol \in {".", "-"}
        /\ symbol = "-" <=>
              Z10(durations[i - 1][2], timing_stats.dah) < Z10(durations[i - 1][2], timing_stats.dit)
        /\ timing_stats = DefaultTimingStats =>
              symbol = (IF durations[i - 1][2] > 4800 THEN "-" ELSE ".")
        /\ current_char[Len(current_char)] = symbol

\* a tone of exactly 0.12 s, the tie, has just been classified a dot
C15_Witness ==
    /\ JustClassified
    /\ durations[i - 1][2] = 4800
    /\ Z10(4800, timing_stats.dah) = Z10(4800, timing_stats.dit)
    /\ symbol = "."

\* decode is in the assembler loop, or past it with the final tokens
Assembling == pc \in {"loop", "gap", "symbol"}
Assembled == pc \in {"translate", "done"}

NoAdjacentMarkers(out) ==
    \A j \in 1..(Len(out) - 1) : ~(IsMarker(out[j]) /\ IsMarker(out[j + 1]))

MarkerLast(out) == out # <<>> /\ IsMarker(out[Len(out)])

\* C16 as stated: in every state of the assembler and in the final token
\* sequence no two markers are adjacent and a marker is never the last
\* token of output.
C16_MarkerNeverLast ==
    (Assembling \/ Assembled) => (NoAdjacentMarkers(output) /\ ~MarkerLast(output))

\* C16: no two markers are ever adjacent; while the runs are processed a
\* marker is the last token of output only when the tone that triggered
\* it is about to be classified or the character after it is pending; in
\* the final token sequence, and in every returned one, a marker is never
\* last, so every marker is followed by a code token.
C16_MarkerFollowedByCode ==
    /\ (Assembling \/ Assembled) => NoAdjacentMarkers(output)
    /\ (Assembling /\ MarkerLast(output)) => (pc = "symbol" \/ current_char # <<>>)
    /\ Assembled =>
          /\ ~MarkerLast(output)
          /\ \A j \in 1..Len(output) :
                IsMarker(output[j]) => (j < Len(output) /\ ~IsMarker(output[j + 1]))
    /\ \A r \in 1..Len(results) :
          NoAdjacentMarkers(results[r].output) /\ ~MarkerLast(results[r].output)

\* the final token sequence holds a marker after a code token, and a code
\* token of two symbols behind the marker
C16_Witness ==
    /\ pc = "done"
    /\ \E j \in 2..(Len(output) - 1) :
          /\ IsMarker(output[j])
          /\ ~IsMarker(output[j - 1])
          /\ Len(output[j + 1]) >= 2

\* C17: silence before the first tone contributes nothing to the decoded
\* text: the run list with a leading gap run of any class decodes to the
\* same text as the run list without it.
C17_LeadingGapSameText ==
    Len(results) >= 2 => results[2].text = results[1].text

====
